---- MODULE Spec2Model ----
(***************************************************************************)
(* A model of the EU funding-opportunities crawlers:                       *)
(*   src/tasks/filtertest.py  EUScraper and main (the listing crawl)       *)
(*   src/tasks/extract.py     FundingOpportunitiesScraper and the luigi    *)
(*                            task FetchFundingOpportunities               *)
(* The web site and the browser are the environment: what a page shows,    *)
(* which URL the browser ends up on and which driver call raises are       *)
(* nondeterministic choices.                                               *)
(***************************************************************************)
EXTENDS Integers, Sequences, FiniteSets, TLC

(***************************************************************************)
(* Bounds of the model.                                                    *)
(***************************************************************************)
\* Listing pages up to this number show any of CardCounts, with or without
\* a "no results" marker, and any of the modelled URLs; later pages show the
\* counts of TailCounts only, so that a crawl can still run to MAX_CALLS.
MaxVaried == 3

\* FetchFundingOpportunities.run requests at most this many listing pages
MaxRunPages == 3
\* a page size other than the default one
SmallPageSize == 2
\* windows a detail page opens by itself while it is being extracted
MaxPopups == 1
\* the number of elements of a card content that vary
MaxElems == 4
\* the number of cards, and of sections, of a detail page
MaxCards == 3
\* the number of records whose statuses are compared
MaxStatuses == 5

(***************************************************************************)
(* Program constants of extract.py.                                        *)
(***************************************************************************)
\* page_size = luigi.IntParameter(default=50)
DefaultPageSize == 50

(***************************************************************************)
(* Program constants of filtertest.py.                                     *)
(***************************************************************************)
MAX_CALLS == 820
\* "len(cards_data) < 50", "len(page_cards) < 50"
FullPage == 50
\* "if len(all_data) >= 800"
NearLimit == 800
\* "if consecutive_empty_pages >= 2"
Confirmations == 2
\* "if pages_with_less_than_50_cards >= 2"
ShortPagesToStop == 2

\* driver.current_url, reduced to the value of its pageNumber parameter;
\* NoPageNumber is a URL that carries no pageNumber parameter at all.
NoPageNumber == 0

\* self.max_pages left at its default, None
NoMaxPages == -1
\* no window is focused
NoWindow == 0
\* nothing was written to the output file: a block that no page gives
NotWritten == <<<<0, 0>>>>
\* no card, no record
NoCard == [none |-> TRUE]

VARIABLES
    pc,                              \* position of main
    exit,                            \* which break or guard ended the loop
    all_data,                        \* list of cards, as blocks <<page, n>>
    current_page,
    current_url,
    page_cards,                      \* number of cards of the page just extracted
    no_results,                      \* the page shows a "no results" marker
    consecutive_empty_pages,
    pages_with_less_than_50_cards,
    served,                          \* history: what each extracted page showed
    \* FetchFundingOpportunities.run and FundingOpportunitiesScraper (extract.py)
    r_pc,                            \* position of run / scrape_page / tab_context
    max_pages,                       \* luigi parameter; NoMaxPages is None
    page_size,                       \* luigi parameter
    output_dir,                      \* os.path.dirname(self.output_file)
    page_num,
    all_calls,                       \* list of records, as blocks <<page, n>>
    cards,                           \* len(cards) of the listing page
    card_i,                          \* cards of the page iterated so far
    calls,                           \* len(calls) of scrape_page
    window_handles,                  \* driver.window_handles
    focus,                           \* the window the driver is switched to
    original_windows,                \* tab_context's copy of the handles
    raised,                          \* the exception that is propagating
    output,                          \* what was written to output_file
    driver,                          \* scraper.driver: "none", "open", "quit"
    yielded,                         \* history: len(page_calls) of each page
    entry_focus,                     \* history: the focus when tab_context began
    \* one call of a pure function of extract.py
    f_pc,
    f_card,                          \* the card given to extract_card_basic_info
    f_result,
    \* one call of the other functions of extract.py and of the status
    \* analysis of filtertest.main
    content_div,                     \* the card content given to the grouper
    sections,                        \* the sections the call returned
    detail_page,                     \* the detail page a record is built from
    call_data,                       \* the record scrape_page built
    merged,                          \* history: the cards whose content was merged
    all_statuses,                    \* the statuses of all_data
    changes                          \* the status changes found

mainVars == <<pc, exit, all_data, current_page, current_url, page_cards,
              no_results, consecutive_empty_pages,
              pages_with_less_than_50_cards, served>>

runVars == <<r_pc, max_pages, page_size, output_dir, page_num, all_calls,
             cards, card_i, calls, window_handles, focus, original_windows,
             raised, output, driver, yielded, entry_focus>>

callVars == <<content_div, sections, detail_page, call_data, merged,
              all_statuses, changes>>

funVars == <<f_pc, f_card, f_result, callVars>>

vars == <<mainVars, runVars, funVars>>

(***************************************************************************)
(* Helpers.                                                                *)
(***************************************************************************)
RECURSIVE Digits(_)
\* str(n): the decimal digits of n, most significant first
Digits(n) == IF n < 10 THEN <<n>> ELSE Append(Digits(n \div 10), n % 10)

IsPrefix(s, t) == Len(s) <= Len(t) /\ SubSeq(t, 1, Len(s)) = s

\* f"pageNumber={k}" in url: a substring test, so the value of the URL's
\* parameter need only start with the digits of k
UrlContainsPageNumber(url, k) ==
    url # NoPageNumber /\ IsPrefix(Digits(k), Digits(url))

RECURSIVE SumBlocks(_)
SumBlocks(blocks) ==
    IF blocks = <<>> THEN 0 ELSE Head(blocks)[2] + SumBlocks(Tail(blocks))

\* len(all_data)
LenData(blocks) == SumBlocks(blocks)

\* all_data.extend(page_cards): the cards 1..n of the requested page
Extend(blocks, page, n) ==
    IF n = 0 THEN blocks ELSE Append(blocks, <<page, n>>)

(***************************************************************************)
(* EUScraper                                                               *)
(***************************************************************************)
validate_current_pageMut(expected_page, url) ==
    IF expected_page > 1
       /\ ~UrlContainsPageNumber(url, expected_page)
       /\ UrlContainsPageNumber(url, 1)
    THEN FALSE
    ELSE TRUE

validate_current_page(expected_page, url) ==
    IF expected_page > 1
       /\ ~UrlContainsPageNumber(url, expected_page)
       /\ (UrlContainsPageNumber(url, 1) \/ url = NoPageNumber)
    THEN FALSE
    ELSE TRUE

\* a page of 1..49 cards is not taken for an end of the results
check_if_end_of_resultsNoShort(n, marker) ==
    IF n = 0 THEN TRUE
    ELSE IF marker THEN TRUE
    ELSE FALSE

check_if_end_of_resultsMut(n, marker) ==
    IF n = 0 THEN TRUE
    ELSE IF n > 0 /\ n < FullPage THEN TRUE
    ELSE FALSE

check_if_end_of_results(n, marker) ==
    IF n = 0 THEN TRUE
    ELSE IF marker THEN TRUE
    ELSE IF n > 0 /\ n < FullPage THEN TRUE
    ELSE FALSE

\* "if consecutive_empty_pages >= 2"
TwoConsecutiveSignalsMut(cep) == cep >= 1
TwoConsecutiveSignals(cep) == cep >= Confirmations

(***************************************************************************)
(* The environment of main: the site and the browser.                      *)
(***************************************************************************)
CardCounts == {0, 1, FullPage - 1, FullPage}
TailCounts == {0, FullPage - 1, FullPage}

CardChoices(page) == IF page <= MaxVaried THEN CardCounts ELSE TailCounts
MarkerChoices(page) == IF page <= MaxVaried THEN BOOLEAN ELSE {FALSE}
\* where the browser ends up when page n is requested: on n, redirected to
\* page 1, on a URL without a page number, on the next page, or on a page
\* whose number starts with the digit 1 or with the digits of n
UrlChoices(n) ==
    IF n <= MaxVaried
    THEN {n, 1, NoPageNumber, n + 1, 10 + n, 10 * n}
    ELSE {n, 1}

(***************************************************************************)
(* main                                                                    *)
(***************************************************************************)
MainInit ==
    /\ pc = "start"
    /\ exit = "none"
    /\ all_data = <<>>
    /\ current_page = 1
    /\ current_url = NoPageNumber
    /\ page_cards = 0
    /\ no_results = FALSE
    /\ consecutive_empty_pages = 0
    /\ pages_with_less_than_50_cards = 0
    /\ served = <<>>

\* driver.get(BASE_URL); scraper.wait_for_page_load(); current_page = 1
EstablishSession ==
    /\ pc = "start"
    /\ \E u \in UrlChoices(1) : current_url' = u
    /\ current_page' = 1
    /\ pc' = "head"
    /\ UNCHANGED <<exit, all_data, page_cards, no_results,
                   consecutive_empty_pages, pages_with_less_than_50_cards,
                   served>>
    /\ UNCHANGED <<runVars, funVars>>

\* driver.get(BASE_URL) raises: "except Exception" of main
EstablishSessionFails ==
    /\ pc = "start"
    /\ pc' = "done"
    /\ exit' = "error"
    /\ UNCHANGED <<all_data, current_page, current_url, page_cards, no_results,
                   consecutive_empty_pages, pages_with_less_than_50_cards,
                   served>>
    /\ UNCHANGED <<runVars, funVars>>

\* the cap is tested one page too late
BelowCapMut(n) == n < MAX_CALLS + FullPage
\* "while len(all_data) < MAX_CALLS"
BelowCap(n) == n < MAX_CALLS

\* "while len(all_data) < MAX_CALLS" is false
LoopGuardEnds ==
    /\ pc = "head"
    /\ ~BelowCap(LenData(all_data))
    /\ pc' = "done"
    /\ exit' = "cap"
    /\ UNCHANGED <<all_data, current_page, current_url, page_cards, no_results,
                   consecutive_empty_pages, pages_with_less_than_50_cards,
                   served>>
    /\ UNCHANGED <<runVars, funVars>>

\* the loop head and "if not scraper.validate_current_page(current_page)"
LoopBodyOf(valid) ==
    IF ~valid
    THEN /\ pc' = "done"
         /\ exit' = "validation"
    ELSE /\ pc' = "extract"
         /\ exit' = exit

ValidatePage ==
    /\ pc = "head"
    /\ BelowCap(LenData(all_data))
    /\ LoopBodyOf(validate_current_page(current_page, current_url))
    /\ UNCHANGED <<all_data, current_page, current_url, page_cards, no_results,
                   consecutive_empty_pages, pages_with_less_than_50_cards,
                   served>>
    /\ UNCHANGED <<runVars, funVars>>

\* page_cards = scraper.extract_cards_from_page(): the page shows n cards (a
\* timeout of the wait for the cards gives []), and it shows a "no results"
\* marker or not, which check_if_end_of_results looks up afterwards
ExtractCards ==
    /\ pc = "extract"
    /\ \E n \in CardChoices(current_page), m \in MarkerChoices(current_page) :
          /\ page_cards' = n
          /\ no_results' = m
          /\ served' = Append(served, [cards |-> n, marker |-> m])
    /\ pc' = "decide"
    /\ UNCHANGED <<exit, all_data, current_page, current_url,
                   consecutive_empty_pages, pages_with_less_than_50_cards>>
    /\ UNCHANGED <<runVars, funVars>>

\* the crawl goes on after a page without cards
NoMoreCardsMut(n) == FALSE
\* "if not page_cards": "No more cards found - reached end of results"
NoMoreCards(n) == n = 0

\* the next page is fetched without a pause
AfterChecksMut == "navigate"
\* no break was taken: "time.sleep(2)" comes next, then the navigation
AfterChecks == "sleep"

\* the rest of the loop body, from check_if_end_of_results to the last break
Decide ==
    /\ pc = "decide"
    /\ LET end == check_if_end_of_results(page_cards, no_results)
           cep == IF end THEN consecutive_empty_pages + 1 ELSE 0
           short == page_cards > 0 /\ page_cards < FullPage
           pwl == IF short THEN pages_with_less_than_50_cards + 1 ELSE 0
           extended == Extend(all_data, current_page, page_cards)
       IN  IF end /\ TwoConsecutiveSignals(cep)
           THEN /\ consecutive_empty_pages' = cep
                /\ UNCHANGED <<pages_with_less_than_50_cards, all_data>>
                /\ pc' = "done"
                /\ exit' = "two_signals"
           ELSE /\ consecutive_empty_pages' = cep
                /\ pages_with_less_than_50_cards' = pwl
                /\ all_data' = extended
                /\ IF short /\ pwl >= ShortPagesToStop
                   THEN pc' = "done" /\ exit' = "two_short"
                   ELSE IF NoMoreCards(page_cards)
                   THEN pc' = "done" /\ exit' = "no_cards"
                   ELSE IF LenData(extended) >= NearLimit
                           /\ page_cards < FullPage
                   THEN pc' = "done" /\ exit' = "near_limit"
                   ELSE pc' = AfterChecks /\ exit' = exit
    /\ UNCHANGED <<current_page, current_url, page_cards, no_results, served>>
    /\ UNCHANGED <<runVars, funVars>>

\* time.sleep(2)
Sleep ==
    /\ pc = "sleep"
    /\ pc' = "navigate"
    /\ UNCHANGED <<exit, all_data, current_page, current_url, page_cards,
                   no_results, consecutive_empty_pages,
                   pages_with_less_than_50_cards, served>>
    /\ UNCHANGED <<runVars, funVars>>

\* current_page = scraper.navigate_to_next_page(current_page)
NavigateToNextPage ==
    /\ pc = "navigate"
    /\ current_page' = current_page + 1
    /\ \E u \in UrlChoices(current_page + 1) : current_url' = u
    /\ pc' = "head"
    /\ UNCHANGED <<exit, all_data, page_cards, no_results,
                   consecutive_empty_pages, pages_with_less_than_50_cards,
                   served>>
    /\ UNCHANGED <<runVars, funVars>>

\* navigate_to_next_page raises: "Failed to navigate to next page", break
NavigateFails ==
    /\ pc = "navigate"
    /\ pc' = "done"
    /\ exit' = "nav_error"
    /\ UNCHANGED <<all_data, current_page, current_url, page_cards, no_results,
                   consecutive_empty_pages, pages_with_less_than_50_cards,
                   served>>
    /\ UNCHANGED <<runVars, funVars>>

\* run and the pure functions, while main is the program under study
RunIdle ==
    /\ r_pc = "idle"
    /\ max_pages = NoMaxPages
    /\ page_size = DefaultPageSize
    /\ output_dir = ""
    /\ page_num = 1
    /\ all_calls = <<>>
    /\ cards = 0
    /\ card_i = 0
    /\ calls = 0
    /\ window_handles = <<>>
    /\ focus = NoWindow
    /\ original_windows = <<>>
    /\ raised = "none"
    /\ output = NotWritten
    /\ driver = "none"
    /\ yielded = <<>>
    /\ entry_focus = NoWindow

CallIdle ==
    /\ content_div = NoCard
    /\ sections = NoCard
    /\ detail_page = NoCard
    /\ call_data = NoCard
    /\ merged = <<>>
    /\ all_statuses = <<>>
    /\ changes = <<>>

FunIdle ==
    /\ f_pc = "idle"
    /\ f_card = NoCard
    /\ f_result = NoCard
    /\ CallIdle

Init == MainInit /\ RunIdle /\ FunIdle

Next ==
    \/ EstablishSession
    \/ EstablishSessionFails
    \/ LoopGuardEnds
    \/ ValidatePage
    \/ ExtractCards
    \/ Decide
    \/ Sleep
    \/ NavigateToNextPage
    \/ NavigateFails

Spec == Init /\ [][Next]_vars

\* main is one sequential thread and every call it makes returns or raises
\* (the waits on the driver have timeouts): a step that can be taken is taken
LiveSpec == Init /\ [][Next]_vars /\ WF_vars(Next)

(***************************************************************************)
(* Properties of filtertest.main.                                          *)
(***************************************************************************)
\* the number of pages extracted so far; page k showed served[k]
K == Len(served)
\* page k produced an end-of-results signal
Signal(k) == served[k].cards < FullPage \/ served[k].marker
\* page k showed between 1 and 49 cards
Weak(k) == served[k].cards > 0 /\ served[k].cards < FullPage
\* no end-of-results signal came from the page before page k
NoSignalBefore(k) == k = 1 \/ ~Signal(k - 1)
\* the loop ended at a break of the iteration that extracted page K
DecideExits == {"two_signals", "two_short", "no_cards", "near_limit"}
InIteration == pc \in {"extract", "decide", "sleep", "navigate"}
GoesOn == pc \in {"sleep", "navigate"}

RECURSIVE CardsOf(_, _)
\* the cards of the extracted pages from page k on, in page order
CardsOf(s, k) ==
    IF k > Len(s) THEN <<>>
    ELSE IF s[k].cards = 0 THEN CardsOf(s, k + 1)
    ELSE <<<<k, s[k].cards>>>> \o CardsOf(s, k + 1)

TypeOK ==
    /\ pc \in {"start", "head", "extract", "decide", "sleep", "navigate", "done"}
    /\ current_page >= 1
    /\ K <= current_page
    /\ consecutive_empty_pages \in 0..Confirmations
    /\ pages_with_less_than_50_cards \in 0..ShortPagesToStop

\* C1 (as amended): a page of 1..49 cards that follows no end-of-results
\* signal ends the crawl in its own iteration only through the near-limit
\* stop, that is when the total including that page has reached 800; and the
\* second of two consecutive pages of 1..49 cards always ends the crawl, with
\* no further page requested.
C1_WeakSignalNeedsConfirmation ==
    /\ (pc = "done" /\ exit \in DecideExits /\ K >= 1 /\ Weak(K)
          /\ NoSignalBefore(K))
       => (exit = "near_limit" /\ LenData(all_data) >= NearLimit)
    /\ (K >= 2 /\ Weak(K) /\ Weak(K - 1) /\ pc # "decide")
       => (pc = "done" /\ exit \in DecideExits /\ current_page = K)

\* C1 as stated: such a page never ends the crawl.
C1_Original ==
    /\ ~(pc = "done" /\ exit \in DecideExits /\ K >= 1 /\ Weak(K)
           /\ NoSignalBefore(K))
    /\ (K >= 2 /\ Weak(K) /\ Weak(K - 1) /\ pc # "decide")
       => (pc = "done" /\ exit \in DecideExits /\ current_page = K)

\* pages of 49, 50, 49 and 49 cards: the crawl went on after pages 1 and 3
\* and stopped at page 4
C1_Witness ==
    /\ pc = "done"
    /\ exit = "two_signals"
    /\ K = 4
    /\ served[1].cards = FullPage - 1
    /\ served[2].cards = FullPage
    /\ served[3].cards = FullPage - 1
    /\ served[4].cards = FullPage - 1
    /\ current_page = 4

\* C2 (as amended): a failed validation and a page of zero cards end the
\* crawl in the iteration that observes them; a "no results" marker on a page
\* with cards ends it in that iteration when the page before also produced an
\* end-of-results signal (the crawl goes on to the next page only after a
\* marker that follows no such signal).
C2_StrongSignals ==
    /\ InIteration => validate_current_page(current_page, current_url)
    /\ exit = "validation"
       => (pc = "done" /\ K = current_page - 1
             /\ ~validate_current_page(current_page, current_url))
    /\ GoesOn => served[K].cards # 0
    /\ GoesOn /\ served[K].marker => NoSignalBefore(K)
    /\ pc = "done" /\ exit \in DecideExits => current_page = K

\* C2 as stated: the crawl never goes on after a page with a marker.
C2_Original ==
    /\ InIteration => validate_current_page(current_page, current_url)
    /\ GoesOn => served[K].cards # 0
    /\ GoesOn => ~served[K].marker

\* a full page with a marker, after a page that signalled, ends the crawl
C2_Witness ==
    /\ pc = "done"
    /\ exit = "two_signals"
    /\ K >= 2
    /\ served[K].marker
    /\ served[K].cards = FullPage
    /\ Signal(K - 1)

\* C4: when the browser reports page 1 or no page number for a requested page
\* n > 1, nothing of page n is extracted and all_data is exactly the cards of
\* pages 1..n-1.
C4_SessionDesync ==
    (current_page > 1 /\ current_url \in {1, NoPageNumber})
    => /\ pc \in {"head", "done"}
       /\ pc = "done" => exit \in {"validation", "cap"}
       /\ K = current_page - 1
       /\ all_data = CardsOf(served, 1)
       /\ \A k \in 1..K : served[k].cards > 0

\* requested page 3, reported page 1: the records of pages 1 and 2 only
C4_Witness ==
    /\ pc = "done"
    /\ exit = "validation"
    /\ current_page = 3
    /\ current_url = 1
    /\ Len(all_data) = 2
    /\ all_data[1][1] = 1
    /\ all_data[2][1] = 2

\* C5: no page is extracted while the browser reports another page number
\* than the requested one.
C5_EveryMismatchStops ==
    (InIteration /\ current_url # NoPageNumber) => current_url = current_page

\* C6: when the loop has ended, all_data is the concatenation, in page order,
\* of the cards of every extracted page.
C6_AllExtractedKept ==
    pc = "done" => all_data = CardsOf(served, 1)

\* C19: every call of navigate_to_next_page comes right after the sleep, and
\* no page after the first is fetched without it.
C19_SleepBeforeNavigate ==
    [][/\ (pc' = "navigate" /\ pc # "navigate") => pc = "sleep"
       /\ current_page' # current_page => pc = "navigate"]_vars

\* the second page was fetched
C19_Witness ==
    /\ pc = "head"
    /\ current_page = 2

\* what main reports when the loop has ended (lines 375-438): the number of
\* records and values computed from the records
Report ==
    [total_calls |-> LenData(all_data), all_data |-> all_data]

\* C20: when the crawl stops because a page failed its validation, the result
\* carries a mark that it may be incomplete.
C20_IncompleteIsMarked ==
    (pc = "done" /\ exit = "validation")
    => "possibly_incomplete" \in DOMAIN Report

\* C22: a page is validated or extracted only while len(all_data) is below
\* MAX_CALLS: once the cap is reached the loop ends at its next test, and
\* the final count is below MAX_CALLS plus the number of cards of the last
\* extracted page.
C22_SafetyCap ==
    /\ pc \in {"extract", "decide"} => LenData(all_data) < MAX_CALLS
    /\ exit = "validation" => LenData(all_data) < MAX_CALLS
    /\ (pc = "head" /\ LenData(all_data) >= MAX_CALLS)
       => (ENABLED LoopGuardEnds /\ ~ENABLED ValidatePage)
    /\ pc = "done"
       => LenData(all_data) < MAX_CALLS + (IF K = 0 THEN 0 ELSE served[K].cards)

\* seventeen full pages: the loop guard ended the crawl with 850 records
C22_Witness ==
    /\ pc = "done"
    /\ exit = "cap"
    /\ LenData(all_data) >= MAX_CALLS
    /\ K = current_page - 1
C24_MainTerminates ==
    /\ <>(pc = "done")
    /\ [][(pc = "decide" /\ pc' # "done")
            => LenData(all_data') >= LenData(all_data) + 1]_vars
    /\ [](/\ K <= LenData(all_data) + 1
          /\ pc \in {"head", "sleep", "navigate"} => K <= LenData(all_data)
          /\ K <= MAX_CALLS)

\* sixteen full pages and a page of 49 cards: stopped with 849 records
C24_Witness ==
    /\ pc = "done"
    /\ exit = "near_limit"
    /\ K = 17
    /\ LenData(all_data) = 16 * FullPage + (FullPage - 1)

(***************************************************************************)
(* extract.py: FundingOpportunitiesScraper.extract_card_basic_info         *)
(*                                                                         *)
(* A text is a sequence of tokens; the token " " is white space and every  *)
(* other token is a run of non-blank characters.                           *)
(***************************************************************************)
\* a lookup or a parse that raised
Raises == [raises |-> TRUE]
\* the return value None
None == [none |-> TRUE]

RECURSIVE LStrip(_)
LStrip(t) == IF t # <<>> /\ Head(t) = " " THEN LStrip(Tail(t)) ELSE t

RECURSIVE RStrip(_)
RStrip(t) ==
    IF t # <<>> /\ t[Len(t)] = " " THEN RStrip(SubSeq(t, 1, Len(t) - 1)) ELSE t

\* str.strip()
Strip(t) == RStrip(LStrip(t))

RECURSIVE Fields(_, _)
\* the runs of non-blank tokens of t, cur being the run read so far
Fields(t, cur) ==
    IF t = <<>> THEN (IF cur = <<>> THEN <<>> ELSE <<cur>>)
    ELSE IF Head(t) = " "
         THEN (IF cur = <<>> THEN <<>> ELSE <<cur>>) \o Fields(Tail(t), <<>>)
         ELSE Fields(Tail(t), Append(cur, Head(t)))

\* what %d, %B and %Y accept
DayOf == [x \in {"5", "05", "15", "31"} |->
            CASE x = "5" -> 5 [] x = "05" -> 5 [] x = "15" -> 15 [] x = "31" -> 31]
MonthOf == [x \in {"February", "March"} |-> IF x = "February" THEN 2 ELSE 3]
YearOf == [x \in {"2024"} |-> 2024]
DaysIn(m, y) == IF m = 2 THEN (IF y % 4 = 0 THEN 29 ELSE 28) ELSE 31
\* "%02d" and "%04d"
Pad2(n) == CASE n = 2 -> "02" [] n = 3 -> "03" [] n = 5 -> "05"
             [] n = 15 -> "15" [] n = 31 -> "31"
Pad4(n) == CASE n = 2024 -> "2024"

\* datetime.strptime(t, "%d %B %Y"): the date, or Raises for a ValueError
Strptime(t) ==
    LET f == Fields(t, <<>>)
    IN  IF /\ t # <<>> /\ Head(t) # " " /\ t[Len(t)] # " "
           /\ Len(f) = 3
           /\ Len(f[1]) = 1 /\ f[1][1] \in DOMAIN DayOf
           /\ Len(f[2]) = 1 /\ f[2][1] \in DOMAIN MonthOf
           /\ Len(f[3]) = 1 /\ f[3][1] \in DOMAIN YearOf
           /\ DayOf[f[1][1]] <= DaysIn(MonthOf[f[2][1]], YearOf[f[3][1]])
        THEN [year |-> YearOf[f[3][1]], month |-> MonthOf[f[2][1]],
              day |-> DayOf[f[1][1]]]
        ELSE Raises

\* date.strftime("%Y-%m-%d")
Strftime(d) == <<Pad4(d.year), "-", Pad2(d.month), "-", Pad2(d.day)>>

\* datetime.strptime(strongs[k].text.strip(), ...).strftime(...)
\*   if len(strongs) >= k and strongs[k].text.strip() else ""
DateField(strongs, k) ==
    IF Len(strongs) >= k /\ Strip(strongs[k]) # <<>>
    THEN (IF Strptime(Strip(strongs[k])) = Raises
          THEN Raises
          ELSE Strftime(Strptime(Strip(strongs[k]))))
    ELSE <<>>

\* a card is what its lookups find: the title anchor (or not), the subtitle
\* container (or not) with its <span> and <strong> texts, the status label
extract_card_basic_info(card) ==
    IF ~card.anchor THEN None                       \* find_element raises
    ELSE IF ~card.subtitle THEN None                \* find_element raises
    ELSE IF ~card.label THEN None                   \* find_element raises
    ELSE LET spans == card.spans
             strongs == card.strongs
             opening == DateField(strongs, 1)
             deadline == DateField(strongs, 2)
         IN  IF opening = Raises \/ deadline = Raises
             THEN None                              \* ValueError of strptime
             ELSE [title |-> Strip(card.title),
                   link |-> card.href,
                   code |-> IF spans # <<>> THEN Strip(spans[1]) ELSE <<>>,
                   type |-> IF Len(spans) > 2 THEN Strip(spans[3]) ELSE <<>>,
                   opening_date |-> opening,
                   deadline_date |-> deadline,
                   stage |-> IF spans # <<>>
                             THEN Strip(spans[Len(spans)]) ELSE <<>>,
                   status |-> Strip(card.status)]

\* the cards given to the function
DateTexts ==
    { <<>>, <<" ">>, <<"15", " ", "March", " ", "2024">>,
      <<" ", "5", " ", " ", "March", " ", "2024", " ">>,
      <<"31", " ", "February", " ", "2024">>, <<"2024-03-15">>, <<"TBD">> }
SpanLists ==
    { <<>>, <<<<"HORIZON-1">>>>,
      <<<<"HORIZON-1">>, <<"|">>, <<"RIA", " ">>>>,
      <<<<"HORIZON-1">>, <<"|">>, <<"RIA">>, <<"single-stage">>>> }
StrongLists ==
    {<<>>} \cup {<<a>> : a \in DateTexts}
           \cup {<<a, b>> : a \in DateTexts, b \in DateTexts}
SampleCards ==
    [anchor : BOOLEAN, title : {<<"Call", " ", "A", " ">>}, href : {"url"},
     subtitle : {TRUE}, spans : SpanLists, strongs : StrongLists,
     label : BOOLEAN, status : {<<"Open">>}]
    \cup
    [anchor : BOOLEAN, title : {<<"Call", " ", "A", " ">>}, href : {"url"},
     subtitle : {FALSE}, spans : {<<>>}, strongs : {<<>>},
     label : BOOLEAN, status : {<<"Open">>}]

MainIdle ==
    /\ pc = "idle"
    /\ exit = "none"
    /\ all_data = <<>>
    /\ current_page = 1
    /\ current_url = NoPageNumber
    /\ page_cards = 0
    /\ no_results = FALSE
    /\ consecutive_empty_pages = 0
    /\ pages_with_less_than_50_cards = 0
    /\ served = <<>>

FunInit ==
    /\ MainIdle
    /\ RunIdle
    /\ f_pc = "call"
    /\ f_card \in SampleCards
    /\ f_result = NoCard
    /\ CallIdle

\* basic_info = self.extract_card_basic_info(card)
CallExtractCardBasicInfo ==
    /\ f_pc = "call"
    /\ f_result' = extract_card_basic_info(f_card)
    /\ f_pc' = "returned"
    /\ UNCHANGED <<f_card, callVars, mainVars, runVars>>

FunNext ==
    \/ CallExtractCardBasicInfo

FunSpec == FunInit /\ [][FunNext]_vars

\* the summary fields of a record
SummaryFields ==
    {"title", "link", "code", "type", "opening_date", "deadline_date",
     "stage", "status"}
\* the text of the k-th <strong> is a date in day-month-year form
ParsableDate(card, k) ==
    Len(card.strongs) >= k /\ Strptime(Strip(card.strongs[k])) # Raises

\* C10: extract_card_basic_info returns None exactly when the title anchor
\* is absent; a missing subtitle container, a missing status label or an
\* unparsable date leaves a record whose corresponding fields are empty.
C10_OnlyAnchorFails ==
    f_pc = "returned"
    => /\ f_result = None <=> ~f_card.anchor
       /\ f_result # None
          => /\ DOMAIN f_result = SummaryFields
             /\ ~f_card.label => f_result.status = <<>>
             /\ ~f_card.subtitle => f_result.code = <<>>
             /\ \A k \in 1..2 :
                  ~ParsableDate(f_card, k)
                  => (IF k = 1 THEN f_result.opening_date
                               ELSE f_result.deadline_date) = <<>>

(***************************************************************************)
(* extract.py: FetchFundingOpportunities.run,                              *)
(* FundingOpportunitiesScraper.scrape_page and tab_context                 *)
(***************************************************************************)
\* max_pages = 0 is taken for a bound of no page at all
WithinMaxPagesMut(n, mp) ==
    IF mp = NoMaxPages THEN TRUE ELSE n <= mp

\* "max_pages_to_check = self.max_pages if self.max_pages else float('inf')"
\* and "while page_num <= max_pages_to_check"
WithinMaxPages(n, mp) ==
    IF mp = NoMaxPages \/ mp = 0 THEN TRUE ELSE n <= mp

\* "if len(page_calls) < self.page_size"
IsLastPageMut(n, size) == n < size - 1
IsLastPage(n, size) == n < size

\* tab_context's finally: the handles left once every window that is not in
\* original_windows has been closed
CloseNewWindowsMut(handles, original) ==
    IF Len(handles) > Len(original)
    THEN SubSeq(handles, 1, Len(handles) - 1)
    ELSE handles
CloseNewWindows(handles, original) ==
    SelectSeq(handles, LAMBDA w : \E k \in 1..Len(original) : original[k] = w)

\* "if original_windows: self.driver.switch_to.window(original_windows[0])"
FocusAfter(handles, original, now) ==
    IF original # <<>> THEN original[1]
    ELSE IF handles # <<>> THEN NoWindow
    ELSE now

\* a handle the browser has not handed out to an open window
NewHandle(handles) ==
    CHOOSE h \in 1..(Len(handles) + 1) :
        \A k \in 1..Len(handles) : handles[k] # h

\* the parameters of the task
MaxPagesChoices == {NoMaxPages, 0, 1, 2}
PageSizes == {SmallPageSize, DefaultPageSize}
OutputDirs == {"", "data"}
\* the number of cards a listing page shows
ListingCards(size) ==
    {0, 1, size - 1, size} \cup (IF size > 12 THEN {3, 12} ELSE {})
\* the cards of a listing page: complete, without title anchor, without
\* status label
RunCards ==
    { c \in SampleCards :
        /\ c.subtitle
        /\ c.spans = <<>>
        /\ c.strongs = <<>>
        /\ c.anchor \/ c.label }

RunInit ==
    /\ MainIdle
    /\ FunIdle
    /\ r_pc = "setup"
    /\ max_pages \in MaxPagesChoices
    /\ page_size \in PageSizes
    /\ output_dir \in OutputDirs
    /\ page_num = 1
    /\ all_calls = <<>>
    /\ cards = 0
    /\ card_i = 0
    /\ calls = 0
    /\ window_handles = <<>>
    /\ focus = NoWindow
    /\ original_windows = <<>>
    /\ raised = "none"
    /\ output = NotWritten
    /\ driver = "none"
    /\ yielded = <<>>
    /\ entry_focus = NoWindow

runParams == <<max_pages, page_size, output_dir>>

\* run ends: "finally: scraper.cleanup()", which quits an open driver; the
\* locals of scrape_page and of tab_context are gone
RunEnds(exc) ==
    /\ r_pc' = "done"
    /\ raised' = exc
    /\ driver' = IF driver = "open" THEN "quit" ELSE driver
    /\ window_handles' = <<>>
    /\ focus' = NoWindow
    /\ cards' = 0
    /\ card_i' = 0
    /\ calls' = 0
    /\ original_windows' = <<>>
    /\ entry_focus' = NoWindow

\* scraper.setup_driver(); all_calls = []; page_num = 1
SetupDriver ==
    /\ r_pc = "setup"
    /\ driver' = "open"
    /\ window_handles' = <<1>>
    /\ focus' = 1
    /\ all_calls' = <<>>
    /\ page_num' = 1
    /\ r_pc' = "loop"
    /\ UNCHANGED <<runParams, cards, card_i, calls, original_windows, raised,
                   output, yielded, entry_focus, mainVars, funVars>>

\* scraper.setup_driver() raises: "except Exception: ... raise"
SetupDriverFails ==
    /\ r_pc = "setup"
    /\ RunEnds("exception")
    /\ UNCHANGED <<runParams, page_num, all_calls, output, yielded, mainVars,
                   funVars>>

\* "while page_num <= max_pages_to_check"
LoopHead ==
    /\ r_pc = "loop"
    /\ r_pc' = IF WithinMaxPages(page_num, max_pages) THEN "fetch" ELSE "save"
    /\ UNCHANGED <<runParams, page_num, all_calls, cards, card_i, calls,
                   window_handles, focus, original_windows, raised, output,
                   driver, yielded, entry_focus, mainVars, funVars>>

\* scrape_page: self.driver.get(url) raises, and nothing in scrape_page or in
\* the loop of run catches it
ListingGetRaises ==
    /\ r_pc = "fetch"
    /\ page_num <= MaxRunPages
    /\ RunEnds("exception")
    /\ UNCHANGED <<runParams, page_num, all_calls, output, yielded, mainVars,
                   funVars>>

\* scrape_page: the wait for an eui-card-header times out, "return []"
ListingTimesOut ==
    /\ r_pc = "fetch"
    /\ page_num <= MaxRunPages
    /\ cards' = 0
    /\ card_i' = 0
    /\ calls' = 0
    /\ r_pc' = "returned"
    /\ UNCHANGED <<runParams, page_num, all_calls, window_handles, focus,
                   original_windows, raised, output, driver, yielded,
                   entry_focus, mainVars, funVars>>

\* scrape_page: the page shows n cards; "if not cards: return []", else the
\* loop over selected_cards begins with calls = []
ListingShowsCards ==
    /\ r_pc = "fetch"
    /\ page_num <= MaxRunPages
    /\ \E n \in ListingCards(page_size) :
          /\ cards' = n
          /\ r_pc' = IF n = 0 THEN "returned" ELSE "card"
    /\ card_i' = 0
    /\ calls' = 0
    /\ UNCHANGED <<runParams, page_num, all_calls, window_handles, focus,
                   original_windows, raised, output, driver, yielded,
                   entry_focus, mainVars, funVars>>

\* "basic_info = self.extract_card_basic_info(card)"; "if not basic_info:
\* continue"
CardSkipped ==
    /\ r_pc = "card"
    /\ card_i < cards
    /\ \E c \in RunCards : extract_card_basic_info(c) = None
    /\ card_i' = card_i + 1
    /\ UNCHANGED <<runParams, r_pc, page_num, all_calls, cards, calls,
                   window_handles, focus, original_windows, raised, output,
                   driver, yielded, entry_focus, mainVars, funVars>>

\* basic_info is a record: "with self.tab_context(basic_info['link'])"
CardParsed ==
    /\ r_pc = "card"
    /\ card_i < cards
    /\ \E c \in RunCards : extract_card_basic_info(c) # None
    /\ r_pc' = "tab"
    /\ UNCHANGED <<runParams, page_num, all_calls, cards, card_i, calls,
                   window_handles, focus, original_windows, raised, output,
                   driver, yielded, entry_focus, mainVars, funVars>>

\* tab_context: original_windows = handles.copy(); window.open(url) opens a
\* tab; switch_to.window(window_handles[-1]); yield
TabOpens ==
    /\ r_pc = "tab"
    /\ original_windows' = window_handles
    /\ entry_focus' = focus
    /\ window_handles' = Append(window_handles, NewHandle(window_handles))
    /\ focus' = NewHandle(window_handles)
    /\ r_pc' = "body"
    /\ UNCHANGED <<runParams, page_num, all_calls, cards, card_i, calls,
                   raised, output, driver, yielded, mainVars, funVars>>

\* tab_context: window.open(url) opens nothing (a blocked pop-up), and the
\* driver switches to the last of the handles there are
TabOpensNothing ==
    /\ r_pc = "tab"
    /\ original_windows' = window_handles
    /\ entry_focus' = focus
    /\ focus' = window_handles[Len(window_handles)]
    /\ r_pc' = "body"
    /\ UNCHANGED <<runParams, page_num, all_calls, cards, card_i, calls,
                   window_handles, raised, output, driver, yielded, mainVars,
                   funVars>>

\* tab_context: execute_script raises before the yield
TabOpenRaises ==
    /\ r_pc = "tab"
    /\ original_windows' = window_handles
    /\ entry_focus' = focus
    /\ raised' = "exception"
    /\ r_pc' = "finally"
    /\ UNCHANGED <<runParams, page_num, all_calls, cards, card_i, calls,
                   window_handles, focus, output, driver, yielded, mainVars,
                   funVars>>

\* the body of the with-block: the detail page opens a window of its own
BodyOpensWindow ==
    /\ r_pc = "body"
    /\ Len(window_handles) < Len(original_windows) + 1 + MaxPopups
    /\ window_handles' = Append(window_handles, NewHandle(window_handles))
    /\ UNCHANGED <<runParams, r_pc, page_num, all_calls, cards, card_i, calls,
                   focus, original_windows, raised, output, driver, yielded,
                   entry_focus, mainVars, funVars>>

\* the body of the with-block completes: detailed_sections is set
BodyCompletes ==
    /\ r_pc = "body"
    /\ r_pc' = "finally"
    /\ UNCHANGED <<runParams, page_num, all_calls, cards, card_i, calls,
                   window_handles, focus, original_windows, raised, output,
                   driver, yielded, entry_focus, mainVars, funVars>>

\* the body of the with-block raises an Exception
BodyRaises ==
    /\ r_pc = "body"
    /\ raised' = "exception"
    /\ r_pc' = "finally"
    /\ UNCHANGED <<runParams, page_num, all_calls, cards, card_i, calls,
                   window_handles, focus, original_windows, output, driver,
                   yielded, entry_focus, mainVars, funVars>>

\* the process is interrupted (KeyboardInterrupt) in the with-block
BodyInterrupted ==
    /\ r_pc = "body"
    /\ raised' = "interrupt"
    /\ r_pc' = "finally"
    /\ UNCHANGED <<runParams, page_num, all_calls, cards, card_i, calls,
                   window_handles, focus, original_windows, output, driver,
                   yielded, entry_focus, mainVars, funVars>>

\* tab_context's finally
TabFinally ==
    /\ r_pc = "finally"
    /\ window_handles' = CloseNewWindows(window_handles, original_windows)
    /\ focus' = FocusAfter(window_handles, original_windows, focus)
    /\ r_pc' = "after_tab"
    /\ UNCHANGED <<runParams, page_num, all_calls, cards, card_i, calls,
                   original_windows, raised, output, driver, yielded,
                   entry_focus, mainVars, funVars>>

\* "call_data = {**basic_info, **detailed_sections}; calls.append(call_data)"
CardMerged ==
    /\ r_pc = "after_tab"
    /\ raised = "none"
    /\ calls' = calls + 1
    /\ card_i' = card_i + 1
    /\ r_pc' = "card"
    /\ UNCHANGED <<runParams, page_num, all_calls, cards, window_handles,
                   focus, original_windows, raised, output, driver, yielded,
                   entry_focus, mainVars, funVars>>

\* scrape_page's "except Exception: ... continue"
CardFailed ==
    /\ r_pc = "after_tab"
    /\ raised = "exception"
    /\ raised' = "none"
    /\ card_i' = card_i + 1
    /\ r_pc' = "card"
    /\ UNCHANGED <<runParams, page_num, all_calls, cards, calls,
                   window_handles, focus, original_windows, output, driver,
                   yielded, entry_focus, mainVars, funVars>>

\* a KeyboardInterrupt is no Exception: it leaves scrape_page and run
InterruptPropagates ==
    /\ r_pc = "after_tab"
    /\ raised = "interrupt"
    /\ RunEnds("interrupt")
    /\ UNCHANGED <<runParams, page_num, all_calls, output, yielded, mainVars,
                   funVars>>

\* the loop over selected_cards is over: "return calls"
ScrapePageReturns ==
    /\ r_pc = "card"
    /\ card_i = cards
    /\ r_pc' = "returned"
    /\ UNCHANGED <<runParams, page_num, all_calls, cards, card_i, calls,
                   window_handles, focus, original_windows, raised, output,
                   driver, yielded, entry_focus, mainVars, funVars>>

\* run: page_calls = scraper.scrape_page(...) and the rest of the loop body
RunDecide ==
    /\ r_pc = "returned"
    /\ page_num <= MaxRunPages
    /\ yielded' = Append(yielded, calls)
    /\ IF calls = 0
       THEN /\ r_pc' = "save"
            /\ UNCHANGED <<all_calls, page_num>>
       ELSE /\ all_calls' = Extend(all_calls, page_num, calls)
            /\ IF IsLastPage(calls, page_size)
               THEN r_pc' = "save" /\ page_num' = page_num
               ELSE r_pc' = "loop" /\ page_num' = page_num + 1
    /\ UNCHANGED <<runParams, cards, card_i, calls, window_handles, focus,
                   original_windows, raised, output, driver, entry_focus,
                   mainVars, funVars>>

\* os.makedirs(os.path.dirname(self.output_file), exist_ok=True), which
\* raises FileNotFoundError for the empty path; json.dump(all_calls, f)
Save ==
    /\ r_pc = "save"
    /\ IF output_dir = ""
       THEN /\ RunEnds("exception")
            /\ output' = output
       ELSE /\ RunEnds("none")
            /\ output' = all_calls
    /\ UNCHANGED <<runParams, page_num, all_calls, yielded, mainVars, funVars>>

\* the process is interrupted (KeyboardInterrupt) outside a with-block
Interrupted ==
    /\ r_pc \in {"loop", "fetch", "card", "tab", "returned", "save"}
    /\ RunEnds("interrupt")
    /\ UNCHANGED <<runParams, page_num, all_calls, output, yielded, mainVars,
                   funVars>>

RunNext ==
    \/ SetupDriver
    \/ SetupDriverFails
    \/ LoopHead
    \/ ListingGetRaises
    \/ ListingTimesOut
    \/ ListingShowsCards
    \/ CardSkipped
    \/ CardParsed
    \/ TabOpens
    \/ TabOpensNothing
    \/ TabOpenRaises
    \/ BodyOpensWindow
    \/ BodyCompletes
    \/ BodyRaises
    \/ BodyInterrupted
    \/ TabFinally
    \/ CardMerged
    \/ CardFailed
    \/ InterruptPropagates
    \/ ScrapePageReturns
    \/ RunDecide
    \/ Save
    \/ Interrupted

RunSpec == RunInit /\ [][RunNext]_vars

(***************************************************************************)
(* run with max_pages unset, on a result set of at most MaxRunPages pages: *)
(* a request for a page with a higher number is a request past the end.    *)
(* From there on the model no longer counts: page_num = MaxRunPages + 1    *)
(* stands for every page number past the end, and the records of these     *)
(* pages (the records of page 1 again) are not added to the model's        *)
(* all_calls and yielded.                                                  *)
(***************************************************************************)
RunLiveInit ==
    /\ RunInit
    /\ max_pages = NoMaxPages

\* scrape_page past the end: the server answers with an empty page, or the
\* page never loads and the wait times out; both are "return []"
PastEndShowsNothing ==
    /\ r_pc = "fetch"
    /\ page_num > MaxRunPages
    /\ cards' = 0
    /\ card_i' = 0
    /\ calls' = 0
    /\ r_pc' = "returned"
    /\ UNCHANGED <<runParams, page_num, all_calls, window_handles, focus,
                   original_windows, raised, output, driver, yielded,
                   entry_focus, mainVars, funVars>>

\* scrape_page past the end: the server silently redirects to page 1, which
\* shows a full page of cards; scrape_page does not look at the page number
\* the browser reports and starts its loop over the cards
PastEndRedirects ==
    /\ r_pc = "fetch"
    /\ page_num > MaxRunPages
    /\ cards' = page_size
    /\ card_i' = 0
    /\ calls' = 0
    /\ r_pc' = "card"
    /\ UNCHANGED <<runParams, page_num, all_calls, window_handles, focus,
                   original_windows, raised, output, driver, yielded,
                   entry_focus, mainVars, funVars>>

\* run: the rest of the loop body after a page past the end
RunDecidePastEnd ==
    /\ r_pc = "returned"
    /\ page_num > MaxRunPages
    /\ r_pc' = IF calls = 0 THEN "save"
               ELSE IF IsLastPage(calls, page_size) THEN "save"
               ELSE "loop"
    /\ UNCHANGED <<runParams, page_num, all_calls, yielded, cards, card_i,
                   calls, window_handles, focus, original_windows, raised,
                   output, driver, entry_focus, mainVars, funVars>>

RunLiveNext ==
    \/ RunNext
    \/ PastEndShowsNothing
    \/ PastEndRedirects
    \/ RunDecidePastEnd

\* run is one sequential thread and every driver call returns or raises: a
\* step that can be taken is taken
RunLiveSpec == RunLiveInit /\ [][RunLiveNext]_vars /\ WF_vars(RunLiveNext)

(***************************************************************************)
(* Properties of FetchFundingOpportunities.run, scrape_page, tab_context.  *)
(***************************************************************************)
\* the number of listing pages scrape_page has returned from
Pages == Len(yielded)

RECURSIVE RecordsOf(_, _)
\* the records of the pages from page k on, in page order
RecordsOf(y, k) ==
    IF k > Len(y) THEN <<>>
    ELSE IF y[k] = 0 THEN RecordsOf(y, k + 1)
    ELSE <<<<k, y[k]>>>> \o RecordsOf(y, k + 1)

RunTypeOK ==
    /\ r_pc \in {"idle", "setup", "loop", "fetch", "card", "tab", "body",
                 "finally", "after_tab", "returned", "save", "done"}
    /\ card_i \in 0..cards
    /\ calls \in 0..card_i
    /\ raised \in {"none", "exception", "interrupt"}
    /\ driver \in {"none", "open", "quit"}
    /\ page_num \in 1..(MaxRunPages + 1)

\* C3: the crawl stops right after the first page that yields fewer than
\* page_size records: every earlier page yielded at least page_size records,
\* the records of that page are in all_calls, and no later page is requested.
C3_StopsAtFirstShortPage ==
    /\ \A k \in 1..(Pages - 1) : yielded[k] >= page_size
    /\ all_calls = RecordsOf(yielded, 1)
    /\ (Pages >= 1 /\ yielded[Pages] < page_size)
       => (r_pc \in {"save", "done"} /\ page_num = Pages)

\* page size 50, pages of 50, 50 and 3 records: stopped after page 3 with
\* 103 records
C3_Witness ==
    /\ r_pc = "save"
    /\ page_size = DefaultPageSize
    /\ yielded = <<50, 50, 3>>
    /\ page_num = 3
    /\ LenData(all_calls) = 103

\* C7: when tab_context has been left, by completion or by an exception, the
\* open windows are those recorded at entry and the focus is on the window
\* that had it at entry; every card iteration starts on the listing window.
C7_TabContextReleases ==
    /\ r_pc = "after_tab"
       => /\ {window_handles[k] : k \in 1..Len(window_handles)}
             = {original_windows[k] : k \in 1..Len(original_windows)}
          /\ focus = entry_focus
    /\ r_pc \in {"card", "tab"}
       => /\ window_handles = <<1>>
          /\ focus = 1

\* the with-block raised, and the teardown has run
C7_Witness ==
    /\ r_pc = "after_tab"
    /\ raised = "exception"
    /\ window_handles = <<1>>
    /\ focus = 1
    /\ card_i >= 1

\* C8: once the driver was set up, however run ends, the records accumulated
\* so far (if there are any) have been written to the output.
C8_PartialResultWritten ==
    (r_pc = "done" /\ driver = "quit" /\ all_calls # <<>>) => output = all_calls

\* C9: a failing card does not keep the rest of the page from being
\* processed, and does not change the pagination decision: the loop of run
\* is not left by a break (page_num still that of the page) after a page
\* that showed page_size cards of which one failed.
C9_ItemFailAbsorbed ==
    /\ r_pc = "returned" => card_i = cards
    /\ ~(/\ r_pc = "save"
          /\ Pages >= 1
          /\ page_num = Pages
          /\ cards = page_size
          /\ yielded[Pages] = cards - 1)

\* a listing page has been requested and scrape_page has not returned yet
InPage ==
    r_pc \in {"fetch", "card", "tab", "body", "finally", "after_tab", "returned"}
\* the number of listing pages requested so far
Fetched == Pages + (IF InPage THEN 1 ELSE 0)

\* C25: with a positive max_pages no more than max_pages listing pages are
\* fetched; with max_pages = 0, as with max_pages unset, page 1 is fetched
\* and the loop is left only after a page without records or with fewer
\* records than page_size.
C25_MaxPagesBound ==
    /\ max_pages > 0 => (Fetched <= max_pages /\ (InPage => page_num <= max_pages))
    /\ (max_pages = 0 /\ r_pc \in {"fetch", "save"}) => Fetched >= 1
    /\ (max_pages \in {0, NoMaxPages} /\ r_pc = "save")
       => (Pages >= 1 /\ yielded[Pages] < page_size)
    /\ (max_pages > 0 /\ r_pc = "save"
          /\ ~(Pages >= 1 /\ yielded[Pages] < page_size))
       => (Pages = max_pages /\ page_num = max_pages + 1)

\* max_pages = 2 and two full pages: the loop test ended the crawl
C25_Witness ==
    /\ max_pages = 2
    /\ r_pc = "save"
    /\ yielded = <<page_size, page_size>>
    /\ page_num = 3
\* C21: with max_pages unset run terminates, whatever the server answers for
\* a page past the end of the results.
C21_RunTerminates == <>(r_pc = "done")

(***************************************************************************)
(* extract.py: extract_text_with_links, _extract_sections_by_headers and   *)
(* extract_hierarchical_content_from_card                                  *)
(*                                                                         *)
(* An element is [tag, text, href, header, kids, stale]: text is what      *)
(* element.text gives, header says that the header selector of line 191    *)
(* matches it, kids are the elements find_elements("*") gives on it, and   *)
(* stale says that this lookup raises.  A content_div is [text,            *)
(* all_elements, fault]: its descendants in document order, which is also  *)
(* what the parent container of each of its headers holds.  An ordered     *)
(* dictionary is a sequence of entries [heading, content] with distinct    *)
(* headings, in insertion order.                                           *)
(***************************************************************************)
\* len(elem_text.strip()) > 5
MinContentLen == 5
\* len(elem_text.strip()) > 3 in extract_page_sections
MinSectionLen == 3
\* no lookup of the grouping raises
NoFault == 0
\* section_headers = content_div.find_elements(...) raises
LookupFault == -1
\* a local variable that was never assigned
Unbound == <<<<"unbound">>>>

\* the number of characters of a token
CharLen(tok) ==
    CASE tok = " " -> 1
      [] tok \in {"[", "]", "(", ")", "u", "bullet", ":"} -> 1
      [] tok \in {"ab", "**"} -> 2
      [] tok = "doc" -> 3
      [] tok = "info" -> 4
      [] tok \in {"Scope", "error", "Open"} -> 5
      [] tok \in {"Budget", "Error:", "search"} -> 6
      [] tok \in {"content", "General", "Partner"} -> 7
      [] OTHER -> 10

RECURSIVE TextLen(_)
\* len(text)
TextLen(t) == IF t = <<>> THEN 0 ELSE CharLen(Head(t)) + TextLen(Tail(t))

\* a in b, for two texts
Contains(a, b) ==
    \E i \in 0..(Len(b) - Len(a)) : SubSeq(b, i + 1, i + Len(a)) = a

RECURSIVE Join(_)
\* " ".join(parts)
Join(parts) ==
    IF parts = <<>> THEN <<>>
    ELSE IF Len(parts) = 1 THEN parts[1]
    ELSE parts[1] \o <<" ">> \o Join(Tail(parts))

\* the elements of a sequence
Range(q) == {q[i] : i \in 1..Len(q)}
\* the least member of a non-empty set of numbers
Least(S) == CHOOSE x \in S : \A y \in S : x <= y

\* list(d.keys())
Keys(d) == [i \in 1..Len(d) |-> d[i].heading]
\* k in d
HasKey(d, k) == \E i \in 1..Len(d) : d[i].heading = k
\* d[k]
GetItem(d, k) == d[CHOOSE i \in 1..Len(d) : d[i].heading = k].content
\* d[k] = v: a new key goes to the end, a known key keeps its place
SetItem(d, k, v) ==
    IF HasKey(d, k)
    THEN [i \in 1..Len(d) |->
             IF d[i].heading = k THEN [heading |-> k, content |-> v] ELSE d[i]]
    ELSE Append(d, [heading |-> k, content |-> v])

RECURSIVE Update(_, _)
\* d.update(e), and {**d, **e}
Update(d, e) ==
    IF e = <<>> THEN d
    ELSE Update(SetItem(d, Head(e).heading, Head(e).content), Tail(e))

\* f"[{text}]({href})"
LinkText(text, href) == <<"[">> \o text \o <<"]", "(">> \o href \o <<")">>

RECURSIVE ContentParts(_, _)
\* the loop over the child nodes of extract_text_with_links
ContentParts(kids, parts) ==
    IF kids = <<>> THEN parts
    ELSE LET child == Head(kids)
             text == Strip(child.text)
             next == IF child.tag = "a"
                     THEN IF text # <<>> /\ child.href # <<>>
                          THEN Append(parts, LinkText(text, child.href))
                          ELSE IF text # <<>> THEN Append(parts, text)
                          ELSE parts
                     ELSE IF text # <<>> /\ ~Contains(text, Join(parts))
                          THEN Append(parts, text)
                          ELSE parts
         IN  ContentParts(Tail(kids), next)

extract_text_with_links(element) ==
    IF element.stale
    THEN Strip(element.text)
    ELSE LET parts == ContentParts(element.kids, <<>>)
             all == IF parts = <<>> /\ Strip(element.text) # <<>>
                    THEN <<Strip(element.text)>>
                    ELSE parts
         IN  Join(all)

\* section_headers = content_div.find_elements(<header selector>): the
\* positions of the header elements, in document order
RECURSIVE HeadersFrom(_, _)
HeadersFrom(els, idx) ==
    IF idx > Len(els) THEN <<>>
    ELSE (IF els[idx].header THEN <<idx>> ELSE <<>>) \o HeadersFrom(els, idx + 1)

section_headers(div) == HeadersFrom(div.all_elements, 1)

\* [h.text.strip() for h in section_headers]
HeaderTexts(els, hs) == [j \in 1..Len(hs) |-> Strip(els[hs[j]].text)]

\* "for idx, elem in enumerate(all_elements): if elem == header or
\* header_text in elem.text": the position found, 0 for the -1 of the code
HeaderIndex(els, h, header_text) ==
    LET found == {idx \in 1..Len(els) :
                     idx = h \/ Contains(header_text, els[idx].text)}
    IN  IF found = {} THEN 0 ELSE Least(found)

RECURSIVE NextHeaderIndex(_, _, _, _)
\* "for j in range(i + 1, len(section_headers))": the first element after
\* header_index whose text holds the text of a later header
NextHeaderIndex(els, texts, j, header_index) ==
    IF j > Len(texts) THEN Len(els) + 1
    ELSE LET found == {idx \in (header_index + 1)..Len(els) :
                          Contains(texts[j], els[idx].text)}
         IN  IF found # {} THEN Least(found)
             ELSE NextHeaderIndex(els, texts, j + 1, header_index)

\* "Format based on element type"
FormatElement(tag, elem_text) ==
    IF tag = "li" THEN <<"bullet", " ">> \o elem_text
    ELSE IF tag \in {"p", "div"} THEN elem_text
    ELSE IF tag \in {"strong", "b"} THEN <<"**">> \o elem_text \o <<"**">>
    ELSE elem_text

\* an element qualifies whatever its text is
QualifiesMut(elem_text, texts) == TRUE
\* the three conditions of lines 254-256
Qualifies(elem_text, texts) ==
    /\ elem_text # <<>>
    /\ TextLen(Strip(elem_text)) > MinContentLen
    /\ Strip(elem_text) \notin Range(texts)

RECURSIVE ContentList(_, _, _, _)
\* "for idx in range(header_index + 1, next_header_index)"
ContentList(els, texts, idx, stop) ==
    IF idx >= stop THEN <<>>
    ELSE LET elem == els[idx]
             elem_text == extract_text_with_links(elem)
         IN  (IF Qualifies(elem_text, texts)
              THEN <<FormatElement(elem.tag, elem_text)>>
              ELSE <<>>)
             \o ContentList(els, texts, idx + 1, stop)

\* sections["extraction_error"] = [f"Error: {str(e)}"]
ExtractionError(secs) ==
    SetItem(secs, <<"extraction_error">>, <<<<"Error:", " ", "e">>>>)

\* a header with empty text gets a section like any other
SkipsHeaderMut(header_text) == FALSE
\* "if not header_text: continue"
SkipsHeader(header_text) == header_text = <<>>

RECURSIVE GroupHeaders(_, _, _, _, _)
\* "for i, header in enumerate(section_headers)" inside the one try of the
\* function: the header at which a lookup raises ends the loop
GroupHeaders(div, hs, i, secs, content_list) ==
    LET els == div.all_elements
        texts == HeaderTexts(els, hs)
    IN  IF i > Len(hs) THEN secs
        ELSE IF SkipsHeader(texts[i])
        THEN GroupHeaders(div, hs, i + 1, secs, content_list)
        ELSE IF div.fault = i THEN ExtractionError(secs)
        ELSE LET header_index == HeaderIndex(els, hs[i], texts[i])
                 next == NextHeaderIndex(els, texts, i + 1, header_index)
                 cl == IF header_index >= 1
                       THEN ContentList(els, texts, header_index + 1, next)
                       ELSE content_list
             IN  IF cl = Unbound THEN ExtractionError(secs)
                 ELSE GroupHeaders(div, hs, i + 1,
                          SetItem(secs, texts[i],
                                  IF cl # <<>> THEN cl
                                  ELSE <<<<"No content found">>>>),
                          cl)

_extract_sections_by_headers(div, hs) == GroupHeaders(div, hs, 1, <<>>, Unbound)

extract_hierarchical_content_from_card(div) ==
    IF div.fault = LookupFault
    THEN <<[heading |-> <<"error">>,
            content |-> <<<<"Content extraction failed:", " ", "e">>>>]>>
    ELSE IF section_headers(div) # <<>>
    THEN _extract_sections_by_headers(div, section_headers(div))
    ELSE LET content == extract_text_with_links(
                            [text |-> div.text, kids |-> div.all_elements,
                             stale |-> FALSE])
         IN  <<[heading |-> <<"content">>,
                content |-> IF content # <<>> THEN <<content>>
                            ELSE <<<<"No content found">>>>]>>

(***************************************************************************)
(* The card contents the grouper is called with                            *)
(***************************************************************************)
Elem(tag, text, header, kids) ==
    [tag |-> tag, text |-> text, href |-> <<>>, header |-> header,
     kids |-> kids, stale |-> FALSE]

\* an anchor with a target
Anchor == [tag |-> "a", text |-> <<"doc">>, href |-> <<"u">>,
           header |-> FALSE, kids |-> <<>>, stale |-> FALSE]

SampleElems ==
    { Elem("span", <<" ", "Scope", " ">>, TRUE, <<>>),
      Elem("span", <<"Budget">>, TRUE, <<>>),
      Elem("span", <<" ">>, TRUE, <<>>),
      Elem("p", <<"Conditions">>, FALSE, <<>>),
      Elem("li", <<"Conditions", " ", "ab">>, FALSE, <<>>),
      Elem("p", <<"Budget">>, FALSE, <<>>),
      Elem("strong", <<"ab", " ", "doc">>, FALSE, <<Anchor>>),
      Anchor }

\* the sequences of at most n sample elements
ElemLists(n) == UNION {[1..m -> SampleElems] : m \in 0..n}

DivFaults(els) == {LookupFault, NoFault} \cup (1..Len(HeadersFrom(els, 1)))

ContentDivs ==
    {[text |-> t, all_elements |-> els, fault |-> f] :
        <<t, els, f>> \in
            {x \in {<<>>, <<"Conditions">>} \X ElemLists(MaxElems)
                   \X (LookupFault..MaxElems) :
                /\ x[3] \in DivFaults(x[2])
                /\ x[1] # <<>> => x[2] = <<>>}}

(***************************************************************************)
(* extract.py: extract_all_card_details, extract_page_sections,            *)
(* detect_page_type and the record of scrape_page                          *)
(*                                                                         *)
(* A detail page is [seen, cards, section_tag, sects]: seen is what        *)
(* detect_page_type finds, the rest what the page holds when the           *)
(* extraction looks at it.  A card is [header_title, has_content,          *)
(* content_div]; a section is [h2, title, content_elements].               *)
(***************************************************************************)
GeneralInfo == <<"General", " ", "info">>
PartnerSearch == <<"Partner", " ", "search", " ", "announcements">>

\* "if section_title in ["content", "error"]: key = header_title"
MergeKey(section_title, header_title) ==
    IF section_title \in {<<"content">>, <<"error">>}
    THEN header_title
    ELSE section_title

RECURSIVE MergeSections(_, _, _)
\* "for section_title, section_content in card_content.items()"
MergeSections(cards_data, header_title, card_content) ==
    IF card_content = <<>> THEN cards_data
    ELSE MergeSections(
             SetItem(cards_data,
                     MergeKey(Head(card_content).heading, header_title),
                     Head(card_content).content),
             header_title, Tail(card_content))

\* the loop goes on after the "Partner search announcements" card
IsFinalCardMut(header_title) == FALSE
\* "if "Partner search announcements" in header_title"
IsFinalCard(header_title) == Contains(PartnerSearch, header_title)

\* "if "General info" in header_title"
IsGeneralInfo(header_title) == Contains(GeneralInfo, header_title)

RECURSIVE CardsLoop(_, _, _, _)
\* "for i, card in enumerate(cards)": the mapping built, and the cards whose
\* content went into it.  card_content is always a dict, so the branch of
\* line 349 is never taken; each lookup of the body has its own handler.
CardsLoop(cs, i, cards_data, done) ==
    IF i > Len(cs) THEN [cards_data |-> cards_data, merged |-> done]
    ELSE LET card == cs[i]
             header_title == Strip(card.header_title)
         IN  IF header_title = <<>>
             THEN CardsLoop(cs, i + 1, cards_data, done)
             ELSE IF IsGeneralInfo(header_title)
             THEN CardsLoop(cs, i + 1, cards_data, done)
             ELSE IF IsFinalCard(header_title)
             THEN [cards_data |->
                       IF card.has_content
                       THEN Update(cards_data,
                                extract_hierarchical_content_from_card(
                                    card.content_div))
                       ELSE SetItem(cards_data, PartnerSearch,
                                <<<<"Extraction error:", " ", "e">>>>),
                   merged |-> Append(done, i)]
             ELSE IF ~card.has_content
             THEN CardsLoop(cs, i + 1,
                      SetItem(cards_data, header_title,
                              <<<<"No content available">>>>),
                      Append(done, i))
             ELSE CardsLoop(cs, i + 1,
                      MergeSections(cards_data, header_title,
                          extract_hierarchical_content_from_card(
                              card.content_div)),
                      Append(done, i))

\* WebDriverWait(...).until(presence_of_all_elements_located("eui-card"))
\* raises TimeoutException when the page shows no card in the wait time
CardsLoaded(page) == page.cards # <<>>

extract_all_card_details(page) ==
    IF ~CardsLoaded(page) THEN [cards_data |-> <<>>, merged |-> <<>>]
    ELSE CardsLoop(page.cards, 1, <<>>, <<>>)


RECURSIVE RemoveAll(_, _)
\* text.replace(sub, "")
RemoveAll(text, sub) ==
    IF sub = <<>> \/ Len(text) < Len(sub) THEN text
    ELSE IF SubSeq(text, 1, Len(sub)) = sub
    THEN RemoveAll(SubSeq(text, Len(sub) + 1, Len(text)), sub)
    ELSE <<Head(text)>> \o RemoveAll(Tail(text), sub)

RECURSIVE LabelValues(_)
\* "for label in labels": f"**{label_text}**: {value_text}"
LabelValues(labels) ==
    IF labels = <<>> THEN <<>>
    ELSE LET label_text == Strip(Head(labels).text)
             value_text == Strip(RemoveAll(Head(labels).parent_text,
                                           label_text))
         IN  (IF value_text # <<>>
              THEN <<(<<"**">> \o label_text \o <<"**", ":", " ">>
                      \o value_text)>>
              ELSE <<>>)
             \o LabelValues(Tail(labels))

RECURSIVE ListItems(_)
\* "for li in list_items"
ListItems(list_items) ==
    IF list_items = <<>> THEN <<>>
    ELSE LET li_text == extract_text_with_links(Head(list_items))
         IN  (IF li_text # <<>> THEN <<(<<"bullet", " ">> \o li_text)>>
              ELSE <<>>)
             \o ListItems(Tail(list_items))

RECURSIVE SectionContent(_)
\* "for elem in content_elements"
SectionContent(content_elements) ==
    IF content_elements = <<>> THEN <<>>
    ELSE LET elem == Head(content_elements)
             elem_text == extract_text_with_links(elem)
         IN  (IF elem_text # <<>> /\ TextLen(Strip(elem_text)) > MinSectionLen
              THEN IF elem.strongs # <<>> THEN LabelValues(elem.strongs)
                   ELSE IF elem.tag = "li"
                   THEN <<(<<"bullet", " ">> \o elem_text)>>
                   ELSE IF elem.tag \in {"ol", "ul"}
                   THEN ListItems(elem.items)
                   ELSE <<elem_text>>
              ELSE <<>>)
             \o SectionContent(Tail(content_elements))

\* "content_list if content_list else ["No content found"]"
SectionEntry(content_list) ==
    IF content_list # <<>> THEN content_list ELSE <<<<"No content found">>>>

RECURSIVE SectionsLoop(_, _, _)
\* "for section in sections": a section without h2 raises and is skipped
SectionsLoop(sects, i, sections_data) ==
    IF i > Len(sects) THEN sections_data
    ELSE LET section == sects[i]
             section_title == Strip(section.title)
         IN  IF ~section.h2 \/ section_title = <<>>
             THEN SectionsLoop(sects, i + 1, sections_data)
             ELSE SectionsLoop(sects, i + 1,
                      SetItem(sections_data, section_title,
                          SectionEntry(
                              SectionContent(section.content_elements))))

\* WebDriverWait(...).until(presence_of_element_located("section")) raises
\* TimeoutException when the page shows no <section> in the wait time
extract_page_sections(page) ==
    IF ~page.section_tag THEN ExtractionError(<<>>)
    ELSE SectionsLoop(page.sects, 1, <<>>)

detect_page_type(page) ==
    IF page.seen = "raises" THEN "cards"
    ELSE IF page.seen = "cards" THEN "cards"
    ELSE IF page.seen = "sections" THEN "sections"
    ELSE "cards"

\* detailed_sections of scrape_page
detailed_sections(page) ==
    IF detect_page_type(page) = "cards"
    THEN extract_all_card_details(page).cards_data
    ELSE extract_page_sections(page)

\* the keys of the dict literal of extract_card_basic_info, in its order
SummaryKeys ==
    <<"title", "link", "code", "type", "opening_date", "deadline_date",
      "stage", "status">>
\* basic_info as an ordered dictionary; a value of a record is a string,
\* [str |-> text], or a list of strings, [list |-> texts]
Items(basic_info) ==
    [i \in 1..Len(SummaryKeys) |->
        [heading |-> <<SummaryKeys[i]>>,
         content |-> [str |-> basic_info[SummaryKeys[i]]]]]
\* the sections as entries of a record
ListValues(sects) ==
    [i \in 1..Len(sects) |->
        [heading |-> sects[i].heading, content |-> [list |-> sects[i].content]]]

\* the summary fields are written after the sections
MergeCallDataMut(basic_info, sects) ==
    Update(ListValues(sects), Items(basic_info))
\* call_data = {**basic_info, **detailed_sections}
MergeCallData(basic_info, sects) ==
    Update(Items(basic_info), ListValues(sects))

(***************************************************************************)
(* filtertest.py: the status changes of main's results analysis            *)
(***************************************************************************)
\* the first status is kept as the one to compare with
RememberMut(prev_status, status) ==
    IF prev_status = <<>> THEN <<status>> ELSE prev_status
\* "prev_status = status"; <<>> is the None the scan starts with
Remember(prev_status, status) == <<status>>

RECURSIVE ScanStatuses(_, _, _, _)
\* "for idx, status in enumerate(all_statuses)": each change found is the
\* idx appended to changes and the line printed for it
ScanStatuses(statuses, idx, prev_status, found) ==
    IF idx >= Len(statuses) THEN found
    ELSE LET status == statuses[idx + 1]
         IN  ScanStatuses(statuses, idx + 1, Remember(prev_status, status),
                 IF prev_status # <<>> /\ status # prev_status[1]
                 THEN Append(found, [idx |-> idx, position |-> idx + 1,
                                     prev_status |-> prev_status[1],
                                     status |-> status])
                 ELSE found)

(***************************************************************************)
(* One call of a function of the detail extraction                         *)
(***************************************************************************)
\* the card contents of a detail page: plain text, a failing lookup, a
\* header "Scope" with a paragraph, a header "status" with a list item
PlainDiv == [text |-> <<"Conditions">>, all_elements |-> <<>>, fault |-> NoFault]
FailingDiv == [text |-> <<>>, all_elements |-> <<>>, fault |-> LookupFault]
ScopeDiv ==
    [text |-> <<>>, fault |-> NoFault,
     all_elements |-> <<Elem("span", <<"Scope">>, TRUE, <<>>),
                        Elem("p", <<"Conditions">>, FALSE, <<>>)>>]
StatusDiv ==
    [text |-> <<>>, fault |-> NoFault,
     all_elements |-> <<Elem("span", <<"status">>, TRUE, <<>>),
                        Elem("li", <<"Conditions", " ", "ab">>, FALSE, <<>>)>>]

\* a card with an eui-card-content, and one without
Card(title, div) ==
    [header_title |-> title, has_content |-> TRUE, content_div |-> div]
BareCard(title) ==
    [header_title |-> title, has_content |-> FALSE, content_div |-> NoCard]

DetailCards ==
    { Card(<<>>, ScopeDiv),
      Card(<<"General", " ", "info">>, StatusDiv),
      Card(<<"Topic", " ">>, PlainDiv),
      Card(<<"Topic", " ">>, FailingDiv),
      Card(<<"Topic", " ">>, ScopeDiv),
      Card(<<"Topic", " ">>, StatusDiv),
      BareCard(<<"Topic", " ">>),
      Card(PartnerSearch, PlainDiv),
      Card(PartnerSearch, ScopeDiv),
      BareCard(PartnerSearch) }

SElem(tag, text, labels, list_items) ==
    [tag |-> tag, text |-> text, href |-> <<>>, kids |-> <<>>,
     stale |-> FALSE, strongs |-> labels, items |-> list_items]

DetailSections ==
    { [h2 |-> FALSE, title |-> <<>>, content_elements |-> <<>>],
      [h2 |-> TRUE, title |-> <<" ">>,
       content_elements |-> <<SElem("p", <<"Conditions">>, <<>>, <<>>)>>],
      [h2 |-> TRUE, title |-> <<"Scope">>,
       content_elements |-> <<SElem("p", <<"Conditions">>, <<>>, <<>>)>>],
      [h2 |-> TRUE, title |-> <<"status", " ">>,
       content_elements |-> <<SElem("p", <<"ab">>, <<>>, <<>>)>>],
      [h2 |-> TRUE, title |-> <<"Scope">>,
       content_elements |->
           <<SElem("div", <<"Budget", " ", "Conditions">>,
                   <<[text |-> <<"Budget">>,
                      parent_text |-> <<"Budget", " ", "Conditions">>]>>,
                   <<>>),
             SElem("ul", <<"Conditions">>, <<>>,
                   <<Elem("li", <<"Conditions">>, FALSE, <<>>)>>)>>] }

CardLists == UNION {[1..m -> DetailCards] : m \in 0..MaxCards}
SectionLists == UNION {[1..m -> DetailSections] : m \in 0..MaxCards}

\* what detect_page_type saw, and what the page holds a moment later
DetailPages ==
    {[seen |-> "cards", cards |-> cs, section_tag |-> FALSE, sects |-> <<>>] :
        cs \in CardLists}
    \cup
    {[seen |-> sn, cards |-> <<>>, section_tag |-> FALSE, sects |-> <<>>] :
        sn \in {"nothing", "raises", "sections"}}
    \cup
    {[seen |-> "sections", cards |-> <<>>, section_tag |-> TRUE, sects |-> ss] :
        ss \in SectionLists}

\* the card of the listing page the record is built for
ListedCard ==
    [anchor |-> TRUE, title |-> <<"Call", " ", "A", " ">>, href |-> "url",
     subtitle |-> TRUE,
     spans |-> <<<<"HORIZON-1">>, <<"|">>, <<"RIA">>, <<"single-stage">>>>,
     strongs |-> <<<<"15", " ", "March", " ", "2024">>>>,
     label |-> TRUE, status |-> <<"Open">>]

\* the statuses of the records of a crawl that found at least one
StatusLists == UNION {[1..n -> {"Open", "Forthcoming", "Closed"}] :
                         n \in 1..MaxStatuses}

GroupInit ==
    /\ f_pc = "group"
    /\ f_card = NoCard
    /\ content_div \in ContentDivs
    /\ detail_page = NoCard
    /\ all_statuses = <<>>

DetailInit ==
    /\ f_pc = "detail"
    /\ f_card = ListedCard
    /\ content_div = NoCard
    /\ detail_page \in DetailPages
    /\ all_statuses = <<>>

StatusInit ==
    /\ f_pc = "analysis"
    /\ f_card = NoCard
    /\ content_div = NoCard
    /\ detail_page = NoCard
    /\ all_statuses \in StatusLists

CallInit ==
    /\ MainIdle
    /\ RunIdle
    /\ f_result = NoCard
    /\ sections = NoCard
    /\ call_data = NoCard
    /\ merged = <<>>
    /\ changes = <<>>
    /\ \/ GroupInit
       \/ DetailInit
       \/ StatusInit

\* card_content = self.extract_hierarchical_content_from_card(content_div)
CallExtractHierarchicalContent ==
    /\ f_pc = "group"
    /\ sections' = extract_hierarchical_content_from_card(content_div)
    /\ f_pc' = "grouped"
    /\ UNCHANGED <<f_card, f_result, content_div, detail_page, call_data,
                   merged, all_statuses, changes, mainVars, runVars>>

\* the body of the loop of scrape_page for one card, lines 546-565
ScrapeCard ==
    /\ f_pc = "detail"
    /\ LET basic_info == extract_card_basic_info(f_card)
       IN  /\ f_result' = basic_info
           /\ call_data' = MergeCallData(basic_info,
                                         detailed_sections(detail_page))
    /\ sections' = detailed_sections(detail_page)
    /\ merged' = IF detect_page_type(detail_page) = "cards"
                 THEN extract_all_card_details(detail_page).merged
                 ELSE <<>>
    /\ f_pc' = "built"
    /\ UNCHANGED <<f_card, content_div, detail_page, all_statuses, changes,
                   mainVars, runVars>>

\* "Find status changes" of main, lines 398-409
FindStatusChanges ==
    /\ f_pc = "analysis"
    /\ changes' = ScanStatuses(all_statuses, 0, <<>>, <<>>)
    /\ f_pc' = "analysed"
    /\ UNCHANGED <<f_card, f_result, content_div, sections, detail_page,
                   call_data, merged, all_statuses, mainVars, runVars>>

CallNext ==
    \/ CallExtractHierarchicalContent
    \/ ScrapeCard
    \/ FindStatusChanges

CallSpec == CallInit /\ [][CallNext]_vars

(***************************************************************************)
(* Properties of the grouper                                               *)
(***************************************************************************)
\* the headers of the card content and their trimmed texts
Hs == section_headers(content_div)
Texts == HeaderTexts(content_div.all_elements, Hs)
\* _extract_sections_by_headers was called and has returned
Grouped ==
    /\ f_pc = "grouped"
    /\ content_div.fault # LookupFault
    /\ Len(Hs) >= 1
\* a lookup raised while a header was grouped
FaultHits == content_div.fault \in 1..Len(Hs) /\ Texts[content_div.fault] # <<>>

RECURSIVE Distinct(_, _)
\* the members of a sequence in the order of their first occurrence
Distinct(q, seen) ==
    IF q = <<>> THEN <<>>
    ELSE IF Head(q) \in seen THEN Distinct(Tail(q), seen)
    ELSE <<Head(q)>> \o Distinct(Tail(q), seen \cup {Head(q)})

NonEmptyText(t) == t # <<>>
\* the headings the grouper is to return
GroupedHeadings ==
    LET upto == IF FaultHits THEN content_div.fault - 1 ELSE Len(Hs)
    IN  Distinct(SelectSeq(SubSeq(Texts, 1, upto), NonEmptyText)
                 \o (IF FaultHits THEN <<<<"extraction_error">>>> ELSE <<>>),
                 {})

\* C11 (as amended): the result of _extract_sections_by_headers has one
\* section for each distinct non-empty trimmed header text, in the order of
\* first occurrence; a header with empty text gets none, headers of equal
\* text share one, and when grouping a header raises, the headers from that
\* one on get none and one "extraction_error" entry is added.
C11_OneSectionPerDistinctText ==
    Grouped => Keys(sections) = GroupedHeadings

\* C11 as stated: k >= 1 headers give exactly k sections, one per header in
\* document order, also when a header has empty text or two have the same.
C11_Original ==
    (Grouped /\ content_div.fault = NoFault) => Keys(sections) = Texts

\* three headers, one of them empty and two of the same text, give one section
C11_Witness ==
    /\ Grouped
    /\ content_div.fault = NoFault
    /\ Len(Hs) = 3
    /\ <<>> \in Range(Texts)
    /\ \E i, j \in 1..3 : i < j /\ Texts[i] = Texts[j] /\ Texts[i] # <<>>
    /\ Len(sections) = 1

\* C13: when grouping header i raises, the sections of the headers before i
\* are kept and every header after i still gets its own section (stated for
\* headers of pairwise different, non-empty texts).
C13_FaultIsolatedPerHeader ==
    (/\ Grouped
     /\ FaultHits
     /\ <<>> \notin Range(Texts)
     /\ \A i, j \in 1..Len(Hs) : Texts[i] = Texts[j] => i = j)
    => \A j \in 1..Len(Hs) :
          j # content_div.fault => HasKey(sections, Texts[j])

(***************************************************************************)
(* Properties of the sections and of the record                            *)
(***************************************************************************)
\* the record of a card was built from a detail page of cards, of sections
BuiltFromCards == f_pc = "built" /\ detect_page_type(detail_page) = "cards"
BuiltFromSections ==
    f_pc = "built" /\ detect_page_type(detail_page) = "sections"

\* every entry has a heading and at least one content string
WellFormed(d) ==
    \A i \in 1..Len(d) : d[i].heading # <<>> /\ d[i].content # <<>>

\* the text of no element of the card content is long enough, or it is the
\* text of a header
NothingQualifies(div) ==
    \A i \in 1..Len(div.all_elements) :
        LET text == Strip(extract_text_with_links(div.all_elements[i]))
        IN  TextLen(text) <= MinContentLen \/ text \in Range(Texts)

\* section i of a page of sections is the last of its title and none of its
\* elements has a text of more than three characters
BareSection(page, i) ==
    LET sec == page.sects[i]
    IN  /\ sec.h2
        /\ Strip(sec.title) # <<>>
        /\ \A j \in (i + 1)..Len(page.sects) :
              page.sects[j].h2 => Strip(page.sects[j].title) # Strip(sec.title)
        /\ \A j \in 1..Len(sec.content_elements) :
              TextLen(Strip(sec.content_elements[j].text)) <= MinSectionLen

\* C12: every section returned by extract_hierarchical_content_from_card,
\* _extract_sections_by_headers, extract_all_card_details and
\* extract_page_sections has a non-empty heading and a non-empty content; a
\* header or section without any qualifying element has the one string
\* "No content found".
C12_SectionInvariant ==
    /\ f_pc \in {"grouped", "built"} => WellFormed(sections)
    /\ (Grouped /\ ~FaultHits /\ NothingQualifies(content_div))
       => \A i \in 1..Len(sections) :
             sections[i].content = <<<<"No content found">>>>
    /\ BuiltFromSections
       => \A i \in 1..Len(detail_page.sects) :
             BareSection(detail_page, i)
             => GetItem(sections, Strip(detail_page.sects[i].title))
                = <<<<"No content found">>>>

\* two headers of which the second has content and the first only an echo
\* of a header and a short text
C12_Witness ==
    /\ Grouped
    /\ content_div.fault = NoFault
    /\ Len(sections) = 2
    /\ sections[1].content = <<<<"No content found">>>>
    /\ sections[2].content # <<<<"No content found">>>>
    /\ Len(content_div.all_elements) = 4
    /\ content_div.all_elements[1].header
    /\ ~content_div.all_elements[2].header

\* card i of the page has a title, and it is not a "General info" card
Eligible(page, i) ==
    /\ Strip(page.cards[i].header_title) # <<>>
    /\ ~Contains(GeneralInfo, page.cards[i].header_title)
\* the first eligible card of the page whose title holds "Partner search
\* announcements", one past the last card when there is none
FirstFinal(page) ==
    LET finals == {i \in 1..Len(page.cards) :
                      /\ Eligible(page, i)
                      /\ Contains(PartnerSearch, page.cards[i].header_title)}
    IN  IF finals = {} THEN Len(page.cards) + 1 ELSE Least(finals)
\* the page without the cards that are not in the list
OnlyCards(page, list) ==
    [page EXCEPT !.cards = [k \in 1..Len(list) |-> page.cards[list[k]]]]

\* C14: the cards whose content goes into the record are, in document order,
\* the cards with a non-empty title without "General info", up to and
\* including the first of them whose title holds "Partner search
\* announcements"; the other cards contribute nothing.
C14_ContributingCards ==
    BuiltFromCards
    => /\ Range(merged) = {i \in 1..Len(detail_page.cards) :
                              /\ Eligible(detail_page, i)
                              /\ i <= FirstFinal(detail_page)}
       /\ \A k \in 1..(Len(merged) - 1) : merged[k] < merged[k + 1]
       /\ sections
          = extract_all_card_details(OnlyCards(detail_page, merged)).cards_data

\* a "General info" card, the final card and a card after it
C14_Witness ==
    /\ BuiltFromCards
    /\ Len(detail_page.cards) = 3
    /\ Contains(GeneralInfo, detail_page.cards[1].header_title)
    /\ Eligible(detail_page, 3)
    /\ detail_page.cards[3].has_content
    /\ merged = <<2>>
    /\ Len(sections) = 1

\* C15: a section with the heading "content" or "error" is stored under the
\* title of its card, for the "Partner search announcements" card too, so
\* that the mapping has no key "content" or "error".
C15_SentinelUnderCardTitle ==
    BuiltFromCards
    => /\ ~HasKey(sections, <<"content">>)
       /\ ~HasKey(sections, <<"error">>)

\* the detail page did not become ready within the wait time
NotReady(page) ==
    \/ detect_page_type(page) = "cards" /\ page.cards = <<>>
    \/ detect_page_type(page) = "sections" /\ ~page.section_tag

\* C16: a detail page that does not become ready contributes no field: the
\* record is the summary fields alone, for both page types.
C16_TimeoutContributesNothing ==
    (f_pc = "built" /\ NotReady(detail_page))
    => /\ sections = <<>>
       /\ call_data = Items(f_result)

RECURSIVE CardWrites(_, _)
\* the entries the cards from i on give to the record, in document order
CardWrites(page, i) ==
    IF i > Len(page.cards) \/ i > FirstFinal(page) THEN <<>>
    ELSE LET card == page.cards[i]
             title == Strip(card.header_title)
             own == IF ~Eligible(page, i) THEN <<>>
                    ELSE IF ~card.has_content
                    THEN <<[heading |-> title,
                            content |-> IF i = FirstFinal(page)
                                        THEN <<<<"Extraction error:", " ",
                                                 "e">>>>
                                        ELSE <<<<"No content available">>>>]>>
                    ELSE LET cc == extract_hierarchical_content_from_card(
                                       card.content_div)
                         IN  [k \in 1..Len(cc) |->
                                 [heading |-> IF i = FirstFinal(page)
                                              THEN cc[k].heading
                                              ELSE MergeKey(cc[k].heading,
                                                            title),
                                  content |-> cc[k].content]]
         IN  own \o CardWrites(page, i + 1)

RECURSIVE SectionWrites(_, _)
\* the entries the sections from i on give to the record
SectionWrites(page, i) ==
    IF i > Len(page.sects) THEN <<>>
    ELSE LET sec == page.sects[i]
         IN  (IF sec.h2 /\ Strip(sec.title) # <<>>
              THEN <<[heading |-> Strip(sec.title),
                      content |-> SectionEntry(
                                      SectionContent(sec.content_elements))]>>
              ELSE <<>>)
             \o SectionWrites(page, i + 1)

\* every entry written to the record, in the order of the writes
Writes ==
    Items(f_result)
    \o ListValues(IF detect_page_type(detail_page) = "cards"
                  THEN CardWrites(detail_page, 1)
                  ELSE IF ~detail_page.section_tag THEN ExtractionError(<<>>)
                  ELSE SectionWrites(detail_page, 1))
\* the value of the last write under key k
LastWrite(w, k) ==
    w[CHOOSE i \in 1..Len(w) :
          /\ w[i].heading = k
          /\ \A j \in (i + 1)..Len(w) : w[j].heading # k].content

ChangePoints(s) == {i \in 2..Len(s) : s[i] # s[i - 1]}

\* C18: the changes reported are exactly the positions i >= 2 with
\* s[i] # s[i-1], in ascending order, each with the pair (s[i-1], s[i]);
\* [A, A, B, B, C] gives positions 3 and 5 with (A, B) and (B, C), and equal
\* statuses give none.
C18_StatusDiff ==
    f_pc = "analysed"
    => /\ {changes[k].position : k \in 1..Len(changes)}
          = ChangePoints(all_statuses)
       /\ \A k \in 1..Len(changes) :
             /\ changes[k].idx + 1 = changes[k].position
             /\ changes[k].prev_status = all_statuses[changes[k].position - 1]
             /\ changes[k].status = all_statuses[changes[k].position]
             /\ k > 1 => changes[k - 1].position < changes[k].position
       /\ all_statuses
          = <<"Open", "Open", "Forthcoming", "Forthcoming", "Closed">>
          => changes
             = <<[idx |-> 2, position |-> 3, prev_status |-> "Open",
                  status |-> "Forthcoming"],
                 [idx |-> 4, position |-> 5, prev_status |-> "Forthcoming",
                  status |-> "Closed"]>>

\* the scan of [A, A, B, B, C] has found its two changes
C18_Witness ==
    /\ f_pc = "analysed"
    /\ all_statuses = <<"Open", "Open", "Forthcoming", "Forthcoming", "Closed">>
    /\ Len(changes) = 2
====
